---------------------------- MODULE Spec2Model ----------------------------
(***************************************************************************)
(* A model of the two extension mechanisms of the Sylverant ship server:   *)
(*   - src/src/quest_functions.c : the native-function dispatcher called   *)
(*     by quest bytecode (quest_function_dispatch and its ten routines);   *)
(*   - src/src/scripts.c : the Lua hook engine (script_add, script_remove, *)
(*     script_eventlist_read, init_scripts, cleanup_scripts,               *)
(*     script_execute, script_execute_pkt).                                *)
(*                                                                         *)
(* Three specifications share the variables:                               *)
(*   QSpec    one dispatch of one call-stack frame against one lobby;      *)
(*   Spec     the hook engine driven by one caller (operations run to      *)
(*            completion one after the other);                             *)
(*   ConcSpec the hook engine driven by several threads, interleaved at    *)
(*            the granularity of the lock operations.                      *)
(***************************************************************************)
EXTENDS Integers, Sequences, FiniteSets, TLC

VARIABLES
    \* ---- quest_functions.c ----
    q_stack,      \* c->q_stack[0..7], the call-stack frame
    clients,      \* l->clients[0..3], a member record or NoClient
    regs,         \* the connection's register file: the slots written, slot |-> value
    writes,       \* the send_sync_register calls of the current dispatch, in order
    status,       \* the value quest_function_dispatch returned
    drawn,        \* TRUE when the dispatch drew from l->block->rng
    qpc,          \* "idle", "ready" (frame pushed) or "done" (dispatch returned)
    rng_out,      \* what mt19937_genrand_int32 returned to the dispatch, if it drew
    \* ---- scripts.c ----
    lstate,       \* "null" (no interpreter) or "open"
    scripts_ref,  \* the registry reference of the scripts table, 0 for none
    script_ids,   \* script_ids[action]: a reference into the scripts table, or 0
    registry,     \* the value the Lua registry holds at index scripts_ref
    slots,        \* the scripts table: the values at its indices 1..Len(slots)
    tfree,        \* the scripts table's index 0, the head of luaL_ref's free list
    lstack,       \* the Lua stack of lstate, bottom first
    nloads,       \* the number of chunks luaL_loadfile has compiled so far
    script_mutex, \* 0, or the thread that holds the mutex
    pc,           \* pc[t]: where thread t is in its current call
    op,           \* op[t]: the call thread t is in, and the action it names
    done,         \* done[t]: the last call thread t returned from, and its result
    crashed,      \* TRUE once an undefined operation brought the process down
    nops,         \* the number of calls made so far
    \* ---- what the registry contract says (history, not program state) ----
    bound,        \* bound[action]: the handler the contract binds, or NoHandler
    how           \* how[action]: the operation that last settled bound[action]

qvars == <<q_stack, clients, regs, writes, status, drawn, qpc, rng_out>>

svars == <<lstate, scripts_ref, script_ids, registry, slots, tfree, lstack,
           nloads, script_mutex, pc, op, done, crashed, nops, bound, how>>

vars == <<qvars, svars>>

-----------------------------------------------------------------------------
(* Words.  The code computes in uint32_t.  TLC's integers are 32-bit signed,  *)
(* so 2^32 is not a value it can hold: the model's word is 30 bits wide and *)
(* everything that is "modulo 2^32" in the code is modulo W32 here.  The    *)
(* all-ones word 0xFFFFFFFF is W32 - 1.                                     *)

\* the number of values of a uint32_t (2^30 in the model)
W32 == 1073741824

\* 0xFFFFFFFF: the "everyone" target and the "nobody in this slot" result
BROADCAST == W32 - 1

\* the register file has slots 0..255: an index is rejected when it is > 255
MaxRegister == 255

U32(x) == x % W32

-----------------------------------------------------------------------------
(* Return codes and function identifiers (symbolic: quest_functions.h gives *)
(* them numbers that the code under src/ never relies on).                  *)

QUEST_FUNC_RET_NO_ERROR == "NO_ERROR"
QUEST_FUNC_RET_BAD_ARG_COUNT == "BAD_ARG_COUNT"
QUEST_FUNC_RET_BAD_RET_COUNT == "BAD_RET_COUNT"
QUEST_FUNC_RET_INVALID_ARG == "INVALID_ARG"
QUEST_FUNC_RET_INVALID_REGISTER == "INVALID_REGISTER"
QUEST_FUNC_RET_INVALID_FUNC == "INVALID_FUNC"

TargetFuncs ==
    {"GET_SECTION", "GET_CLASS", "GET_GENDER", "GET_RACE", "GET_JOB",
     "GET_FLOOR", "GET_POSITION"}

KnownFuncs == TargetFuncs \cup {"TIME", "CLIENT_COUNT", "GET_RANDOM"}

\* a function_id that matches no case of the switch
UnknownFunc == "UNKNOWN"

-----------------------------------------------------------------------------
(* The lobby *)

NoClient == [present |-> FALSE]

\* the result of one routine: the status it returns, the register writes it
\* issued (in order) and whether it drew a random number
Result(st, ws, dr) == [status |-> st, writes |-> ws, drawn |-> dr]

Fail(st) == Result(st, <<>>, FALSE)

\* a float: its integral part (rounded toward zero) and whether it has a
\* fractional part
Float(whole, frac) == [whole |-> whole, frac |-> frac]

\* l->clients[i] for an occupied slot; every slot holds different values so
\* that a value written to the wrong register is seen.  Class 12 is outside
\* the attribute tables; member 0 stands at (7.5, 0.0, -12.5).
Member(i) ==
    CASE i = 0 -> [present |-> TRUE, section |-> 1, ch_class |-> 3,
                   cur_area |-> 2, x |-> Float(7, TRUE), y |-> Float(0, FALSE),
                   z |-> Float(-12, TRUE)]
      [] i = 1 -> [present |-> TRUE, section |-> 9, ch_class |-> 0,
                   cur_area |-> 0, x |-> Float(300, TRUE), y |-> Float(18, FALSE),
                   z |-> Float(1, TRUE)]
      [] i = 2 -> [present |-> TRUE, section |-> 4, ch_class |-> 7,
                   cur_area |-> 17, x |-> Float(0, TRUE), y |-> Float(120, FALSE),
                   z |-> Float(66, FALSE)]
      [] OTHER -> [present |-> TRUE, section |-> 0, ch_class |-> 12,
                   cur_area |-> 5, x |-> Float(20, FALSE), y |-> Float(30, TRUE),
                   z |-> Float(40, FALSE)]

Lobbies == {l \in [0..3 -> {NoClient} \cup {Member(i) : i \in 0..3}] :
               \A i \in 0..3 : l[i].present => l[i] = Member(i)}

\* l->num_clients, which the lobby code keeps equal to the number of
\* occupied slots
num_clients(l) == Cardinality({i \in 0..3 : l[i].present})

-----------------------------------------------------------------------------
(* Values the routines hand to send_sync_register *)

\* l->clients[i]->pl->v1.section, widened to uint32_t
SectionOf(cl) == U32(cl.section)

\* l->clients[i]->pl->v1.ch_class, widened to uint32_t
ClassOf(cl) == U32(cl.ch_class)

genders == <<0, 1, 0, 0, 0, 1, 1, 0, 1, 1, 0, 1>>
races == <<0, 1, 2, 0, 2, 2, 0, 1, 1, 2, 0, 0>>
jobs == <<0, 0, 0, 1, 1, 1, 2, 2, 2, 0, 2, 1>>

\* ATTR giving 0 for a class that is not in the tables
ATTR_ZeroDefault(x, y) == IF x < 12 THEN y[x + 1] ELSE 0

\* #define ATTR(x, y) (((x) < 12) ? y[(x)] : -1); y is 0-based in C
ATTR(x, y) == IF x < 12 THEN y[x + 1] ELSE -1

GENDER(x) == ATTR(x, genders)
RACE(x) == ATTR(x, races)
JOB(x) == ATTR(x, jobs)

\* the int of the macros, converted to the uint32_t parameter
GenderOf(cl) == U32(GENDER(cl.ch_class))
RaceOf(cl) == U32(RACE(cl.ch_class))
JobOf(cl) == U32(JOB(cl.ch_class))

\* l->clients[i]->cur_area (an int), converted to the uint32_t parameter
FloorOf(cl) == U32(cl.cur_area)

\* how the build converts a float whose integral part is below 0 to
\* uint32_t, which C leaves undefined: through a wider signed integer
\* ("wrap") or saturating ("zero")
FloatModes == {"wrap", "zero"}

\* (uint32_t)f for a float f: the fractional part is discarded
FloatToU32(f, fmode) ==
    IF f.whole >= 0 /\ f.whole < W32 THEN f.whole
    ELSE IF fmode = "wrap" THEN U32(f.whole)
    ELSE 0

\* what a routine reads from a member, by the name of the routine's datum
MemberValue(datum, cl) ==
    CASE datum = "section" -> SectionOf(cl)
      [] datum = "class" -> ClassOf(cl)
      [] datum = "gender" -> GenderOf(cl)
      [] datum = "race" -> RaceOf(cl)
      [] datum = "job" -> JobOf(cl)
      [] datum = "floor" -> FloorOf(cl)

\* the value written for slot i of the lobby: the datum of the member, or
\* the 0xFFFFFFFF of the else branches
SlotValue(l, i, datum) ==
    IF l[i].present THEN MemberValue(datum, l[i]) ELSE BROADCAST

\* one send_sync_register(c, reg, value) call
Sync(reg, value) == [reg |-> reg, value |-> value]

-----------------------------------------------------------------------------
(* The routines.  q is c->q_stack (a function on 0..7), l is l->clients.    *)

\* SingleValueQuery writing the values of slots 1 and 2 to each other's
\* registers in the broadcast form
SingleValueQuery_SwappedSlots(q, l, datum) ==
    IF q[1] # 1 THEN Fail(QUEST_FUNC_RET_BAD_ARG_COUNT)
    ELSE IF q[3] = BROADCAST THEN
        IF q[2] # 4 THEN Fail(QUEST_FUNC_RET_BAD_RET_COUNT)
        ELSE IF q[4] > MaxRegister \/ q[5] > MaxRegister
                \/ q[6] > MaxRegister \/ q[7] > MaxRegister
        THEN Fail(QUEST_FUNC_RET_INVALID_REGISTER)
        ELSE Result(QUEST_FUNC_RET_NO_ERROR,
                    <<Sync(q[4], SlotValue(l, 0, datum)),
                      Sync(q[5], SlotValue(l, 2, datum)),
                      Sync(q[6], SlotValue(l, 1, datum)),
                      Sync(q[7], SlotValue(l, 3, datum))>>, FALSE)
    ELSE IF q[3] < 4 THEN
        IF q[2] # 1 THEN Fail(QUEST_FUNC_RET_BAD_RET_COUNT)
        ELSE IF q[4] > MaxRegister THEN Fail(QUEST_FUNC_RET_INVALID_REGISTER)
        ELSE Result(QUEST_FUNC_RET_NO_ERROR,
                    <<Sync(q[4], SlotValue(l, q[3], datum))>>, FALSE)
    ELSE Fail(QUEST_FUNC_RET_INVALID_ARG)

\* the shape shared by get_section_id, get_char_class, get_char_gender,
\* get_char_race, get_char_job and get_client_floor, which differ only in
\* the datum they read from the member
SingleValueQuery(q, l, datum) ==
    IF q[1] # 1 THEN Fail(QUEST_FUNC_RET_BAD_ARG_COUNT)
    ELSE IF q[3] = BROADCAST THEN
        IF q[2] # 4 THEN Fail(QUEST_FUNC_RET_BAD_RET_COUNT)
        ELSE IF q[4] > MaxRegister \/ q[5] > MaxRegister
                \/ q[6] > MaxRegister \/ q[7] > MaxRegister
        THEN Fail(QUEST_FUNC_RET_INVALID_REGISTER)
        ELSE Result(QUEST_FUNC_RET_NO_ERROR,
                    <<Sync(q[4], SlotValue(l, 0, datum)),
                      Sync(q[5], SlotValue(l, 1, datum)),
                      Sync(q[6], SlotValue(l, 2, datum)),
                      Sync(q[7], SlotValue(l, 3, datum))>>, FALSE)
    ELSE IF q[3] < 4 THEN
        IF q[2] # 1 THEN Fail(QUEST_FUNC_RET_BAD_RET_COUNT)
        ELSE IF q[4] > MaxRegister THEN Fail(QUEST_FUNC_RET_INVALID_REGISTER)
        ELSE Result(QUEST_FUNC_RET_NO_ERROR,
                    <<Sync(q[4], SlotValue(l, q[3], datum))>>, FALSE)
    ELSE Fail(QUEST_FUNC_RET_INVALID_ARG)

get_section_id(q, l) == SingleValueQuery(q, l, "section")

\* get_time without its return-count check
get_time_NoRetCheck(q, l, now) ==
    IF q[1] # 0 THEN Fail(QUEST_FUNC_RET_BAD_ARG_COUNT)
    ELSE IF q[3] > MaxRegister THEN Fail(QUEST_FUNC_RET_INVALID_REGISTER)
    ELSE Result(QUEST_FUNC_RET_NO_ERROR, <<Sync(q[3], U32(now))>>, FALSE)

\* now is what time(NULL) returns
get_time(q, l, now) ==
    IF q[1] # 0 THEN Fail(QUEST_FUNC_RET_BAD_ARG_COUNT)
    ELSE IF q[2] # 1 THEN Fail(QUEST_FUNC_RET_BAD_RET_COUNT)
    ELSE IF q[3] > MaxRegister THEN Fail(QUEST_FUNC_RET_INVALID_REGISTER)
    ELSE Result(QUEST_FUNC_RET_NO_ERROR, <<Sync(q[3], U32(now))>>, FALSE)

\* get_client_count checking the return count before the argument count
get_client_count_RetFirst(q, l) ==
    IF q[2] # 1 THEN Fail(QUEST_FUNC_RET_BAD_RET_COUNT)
    ELSE IF q[1] # 0 THEN Fail(QUEST_FUNC_RET_BAD_ARG_COUNT)
    ELSE IF q[3] > MaxRegister THEN Fail(QUEST_FUNC_RET_INVALID_REGISTER)
    ELSE Result(QUEST_FUNC_RET_NO_ERROR,
                <<Sync(q[3], U32(num_clients(l)))>>, FALSE)

\* get_client_count writing the number of slots instead of l->num_clients
get_client_count_Capacity(q, l) ==
    IF q[1] # 0 THEN Fail(QUEST_FUNC_RET_BAD_ARG_COUNT)
    ELSE IF q[2] # 1 THEN Fail(QUEST_FUNC_RET_BAD_RET_COUNT)
    ELSE IF q[3] > MaxRegister THEN Fail(QUEST_FUNC_RET_INVALID_REGISTER)
    ELSE Result(QUEST_FUNC_RET_NO_ERROR, <<Sync(q[3], 4)>>, FALSE)

get_client_count(q, l) ==
    IF q[1] # 0 THEN Fail(QUEST_FUNC_RET_BAD_ARG_COUNT)
    ELSE IF q[2] # 1 THEN Fail(QUEST_FUNC_RET_BAD_RET_COUNT)
    ELSE IF q[3] > MaxRegister THEN Fail(QUEST_FUNC_RET_INVALID_REGISTER)
    ELSE Result(QUEST_FUNC_RET_NO_ERROR,
                <<Sync(q[3], U32(num_clients(l)))>>, FALSE)

get_char_class(q, l) == SingleValueQuery(q, l, "class")

get_char_gender(q, l) == SingleValueQuery(q, l, "gender")

get_char_race(q, l) == SingleValueQuery(q, l, "race")

get_char_job(q, l) == SingleValueQuery(q, l, "job")

get_client_floor(q, l) == SingleValueQuery(q, l, "floor")

\* PositionWrites writing 0 instead of 0xFFFFFFFF for an empty slot
PositionWrites_ZeroForAbsent(base, l, i, fmode) ==
    IF l[i].present
    THEN <<Sync(base, FloatToU32(l[i].x, fmode)),
           Sync(U32(base + 1), FloatToU32(l[i].y, fmode)),
           Sync(U32(base + 2), FloatToU32(l[i].z, fmode))>>
    ELSE <<Sync(base, 0), Sync(U32(base + 1), 0), Sync(U32(base + 2), 0)>>

\* the three writes of one member's block of get_client_position; base + 1
\* and base + 2 are uint32_t sums of a base that passed the > 255 check
PositionWrites(base, l, i, fmode) ==
    IF l[i].present
    THEN <<Sync(base, FloatToU32(l[i].x, fmode)),
           Sync(U32(base + 1), FloatToU32(l[i].y, fmode)),
           Sync(U32(base + 2), FloatToU32(l[i].z, fmode))>>
    ELSE <<Sync(base, BROADCAST),
           Sync(U32(base + 1), BROADCAST),
           Sync(U32(base + 2), BROADCAST)>>

\* get_client_position checking the bases of slots 1 to 3 only after it has
\* written the block of slot 0
get_client_position_LateCheck(q, l, fmode) ==
    IF q[1] # 1 THEN Fail(QUEST_FUNC_RET_BAD_ARG_COUNT)
    ELSE IF q[3] = BROADCAST THEN
        IF q[2] # 4 THEN Fail(QUEST_FUNC_RET_BAD_RET_COUNT)
        ELSE IF q[4] > MaxRegister THEN Fail(QUEST_FUNC_RET_INVALID_REGISTER)
        ELSE IF q[5] > MaxRegister \/ q[6] > MaxRegister \/ q[7] > MaxRegister
        THEN Result(QUEST_FUNC_RET_INVALID_REGISTER,
                    PositionWrites(q[4], l, 0, fmode), FALSE)
        ELSE Result(QUEST_FUNC_RET_NO_ERROR,
                    PositionWrites(q[4], l, 0, fmode)
                      \o PositionWrites(q[5], l, 1, fmode)
                      \o PositionWrites(q[6], l, 2, fmode)
                      \o PositionWrites(q[7], l, 3, fmode), FALSE)
    ELSE IF q[3] < 4 THEN
        IF q[2] # 1 THEN Fail(QUEST_FUNC_RET_BAD_RET_COUNT)
        ELSE IF q[4] > MaxRegister THEN Fail(QUEST_FUNC_RET_INVALID_REGISTER)
        ELSE Result(QUEST_FUNC_RET_NO_ERROR,
                    PositionWrites(q[4], l, q[3], fmode), FALSE)
    ELSE Fail(QUEST_FUNC_RET_INVALID_ARG)

get_client_position(q, l, fmode) ==
    IF q[1] # 1 THEN Fail(QUEST_FUNC_RET_BAD_ARG_COUNT)
    ELSE IF q[3] = BROADCAST THEN
        IF q[2] # 4 THEN Fail(QUEST_FUNC_RET_BAD_RET_COUNT)
        ELSE IF q[4] > MaxRegister \/ q[5] > MaxRegister
                \/ q[6] > MaxRegister \/ q[7] > MaxRegister
        THEN Fail(QUEST_FUNC_RET_INVALID_REGISTER)
        ELSE Result(QUEST_FUNC_RET_NO_ERROR,
                    PositionWrites(q[4], l, 0, fmode)
                      \o PositionWrites(q[5], l, 1, fmode)
                      \o PositionWrites(q[6], l, 2, fmode)
                      \o PositionWrites(q[7], l, 3, fmode), FALSE)
    ELSE IF q[3] < 4 THEN
        IF q[2] # 1 THEN Fail(QUEST_FUNC_RET_BAD_RET_COUNT)
        ELSE IF q[4] > MaxRegister THEN Fail(QUEST_FUNC_RET_INVALID_REGISTER)
        ELSE Result(QUEST_FUNC_RET_NO_ERROR,
                    PositionWrites(q[4], l, q[3], fmode), FALSE)
    ELSE Fail(QUEST_FUNC_RET_INVALID_ARG)

\* get_random_integer comparing min and max before it checks the register
get_random_integer_RangeFirst(q, l, g) ==
    IF q[1] # 2 THEN Fail(QUEST_FUNC_RET_BAD_ARG_COUNT)
    ELSE IF q[2] # 1 THEN Fail(QUEST_FUNC_RET_BAD_RET_COUNT)
    ELSE IF q[3] >= q[4] THEN Fail(QUEST_FUNC_RET_INVALID_ARG)
    ELSE IF q[5] > MaxRegister THEN Fail(QUEST_FUNC_RET_INVALID_REGISTER)
    ELSE Result(QUEST_FUNC_RET_NO_ERROR,
                <<Sync(q[5], U32((g % (U32(q[4] - q[3]) + 1)) + q[3]))>>, TRUE)

\* get_random_integer rejecting min > max only
get_random_integer_AcceptsEqual(q, l, g) ==
    IF q[1] # 2 THEN Fail(QUEST_FUNC_RET_BAD_ARG_COUNT)
    ELSE IF q[2] # 1 THEN Fail(QUEST_FUNC_RET_BAD_RET_COUNT)
    ELSE IF q[5] > MaxRegister THEN Fail(QUEST_FUNC_RET_INVALID_REGISTER)
    ELSE IF q[3] > q[4] THEN Fail(QUEST_FUNC_RET_INVALID_ARG)
    ELSE Result(QUEST_FUNC_RET_NO_ERROR,
                <<Sync(q[5], U32((g % (U32(q[4] - q[3]) + 1)) + q[3]))>>, TRUE)

\* get_random_integer leaving min out of the sum
get_random_integer_NoOffset(q, l, g) ==
    IF q[1] # 2 THEN Fail(QUEST_FUNC_RET_BAD_ARG_COUNT)
    ELSE IF q[2] # 1 THEN Fail(QUEST_FUNC_RET_BAD_RET_COUNT)
    ELSE IF q[5] > MaxRegister THEN Fail(QUEST_FUNC_RET_INVALID_REGISTER)
    ELSE IF q[3] >= q[4] THEN Fail(QUEST_FUNC_RET_INVALID_ARG)
    ELSE Result(QUEST_FUNC_RET_NO_ERROR,
                <<Sync(q[5], U32(g % (U32(q[4] - q[3]) + 1)))>>, TRUE)

\* g is what mt19937_genrand_int32(&l->block->rng) returns when it is called
get_random_integer(q, l, g) ==
    IF q[1] # 2 THEN Fail(QUEST_FUNC_RET_BAD_ARG_COUNT)
    ELSE IF q[2] # 1 THEN Fail(QUEST_FUNC_RET_BAD_RET_COUNT)
    ELSE IF q[5] > MaxRegister THEN Fail(QUEST_FUNC_RET_INVALID_REGISTER)
    ELSE LET min == q[3]
             max == q[4]
         IN  IF min >= max THEN Fail(QUEST_FUNC_RET_INVALID_ARG)
             ELSE LET span == U32(max - min)
                      rnd == U32((g % (span + 1)) + min)
                  IN  Result(QUEST_FUNC_RET_NO_ERROR, <<Sync(q[5], rnd)>>, TRUE)

quest_function_dispatch(q, l, now, g, fmode) ==
    CASE q[0] = "GET_SECTION" -> get_section_id(q, l)
      [] q[0] = "TIME" -> get_time(q, l, now)
      [] q[0] = "CLIENT_COUNT" -> get_client_count(q, l)
      [] q[0] = "GET_CLASS" -> get_char_class(q, l)
      [] q[0] = "GET_GENDER" -> get_char_gender(q, l)
      [] q[0] = "GET_RACE" -> get_char_race(q, l)
      [] q[0] = "GET_JOB" -> get_char_job(q, l)
      [] q[0] = "GET_FLOOR" -> get_client_floor(q, l)
      [] q[0] = "GET_POSITION" -> get_client_position(q, l, fmode)
      [] q[0] = "GET_RANDOM" -> get_random_integer(q, l, g)
      [] OTHER -> Fail(QUEST_FUNC_RET_INVALID_FUNC)

-----------------------------------------------------------------------------
(* The register file.  send_sync_register is declared in ship_packets.h and *)
(* defined outside src/; its effect is the one the specification gives: the *)
(* named slot of the 256-slot register file takes the value.  For an index  *)
(* above 255, which names no slot, the outcome depends on the width of the  *)
(* callee's parameter: the index is cut to 8 bits (wrap) or the write has   *)
(* no slot to land in (~wrap).                                              *)

Registers == 0..MaxRegister

\* what every register holds before the call
RegFill == 57005

\* The variable regs holds the slots written since the call began, slot |->
\* value; every other slot of the 256 still holds RegFill.
Unwritten == [k \in {} |-> RegFill]

\* the value register k holds
Reg(r, k) == IF k \in DOMAIN r THEN r[k] ELSE RegFill

WriteRegister(r, w, wrap) ==
    IF w.reg \in Registers THEN (w.reg :> w.value) @@ r
    ELSE IF wrap THEN ((w.reg % (MaxRegister + 1)) :> w.value) @@ r
    ELSE r

RECURSIVE ApplyWrites(_, _, _)
ApplyWrites(r, ws, wrap) ==
    IF ws = <<>> THEN r
    ELSE ApplyWrites(WriteRegister(r, Head(ws), wrap), Tail(ws), wrap)

-----------------------------------------------------------------------------
(* QSpec: one dispatch.  The initial states range over the lobbies, the     *)
(* first action over the frames; the second is the call of                  *)
(* quest_function_dispatch.                                                 *)

\* the frames: every function id, matching and mismatching counts, valid and
\* invalid targets
Frame(w0, w1, w2, w3, w4, w5, w6, w7) ==
    [i \in 0..7 |-> CASE i = 0 -> w0 [] i = 1 -> w1 [] i = 2 -> w2
                      [] i = 3 -> w3 [] i = 4 -> w4 [] i = 5 -> w5
                      [] i = 6 -> w6 [] OTHER -> w7]

\* q_stack[4..7]: four different registers, equal ones, overlapping and
\* disjoint three-register blocks, blocks that run past register 255, and an index
\* above 255 in each of the four places
ArgWords ==
    {<<5, 6, 7, 8>>, <<10, 20, 30, 40>>, <<5, 5, 7, 8>>, <<6, 5, 7, 8>>, <<254, 6, 7, 8>>,
     <<255, 6, 7, 8>>, <<5, 6, 7, 254>>, <<256, 6, 7, 8>>, <<5, 256, 7, 8>>,
     <<5, 6, 256, 8>>, <<5, 6, 7, 256>>, <<256, 256, 7, 8>>,
     <<BROADCAST, 6, 7, 8>>, <<BROADCAST, 256, 7, 8>>}

Frames ==
    {Frame(w0, w1, w2, w3, ws[1], ws[2], ws[3], ws[4]) :
        w0 \in KnownFuncs \cup {UnknownFunc},
        w1 \in {0, 1, 2},
        w2 \in {1, 2, 4},
        w3 \in {0, 2, 256, BROADCAST},
        ws \in ArgWords}

\* values of time(NULL): one that fits 32 bits and one that does not
Times == {1000000000, W32 + 7}

\* outputs of the generator
Draws == {0, 7, BROADCAST}

QIdle ==
    /\ q_stack = Frame(UnknownFunc, 0, 0, 0, 0, 0, 0, 0)
    /\ regs = Unwritten
    /\ writes = <<>>
    /\ status = "NONE"
    /\ drawn = FALSE
    /\ qpc = "idle"
    /\ rng_out = 0

\* the quest's bytecode fills the call stack before its native-call
\* instruction hands the frame to quest_function_dispatch
PushFrame ==
    /\ qpc = "idle"
    /\ q_stack' \in Frames
    /\ qpc' = "ready"
    /\ UNCHANGED <<clients, regs, writes, status, drawn, rng_out, svars>>

\* the values an input of the call ranges over: all of S when the called
\* routine reads the input, one of them when it does not
Input(S, read) == IF read THEN S ELSE {CHOOSE x \in S : TRUE}

QuestCall ==
    /\ qpc = "ready"
    /\ \E now \in Input(Times, q_stack[0] = "TIME"),
          g \in Input(Draws, q_stack[0] = "GET_RANDOM"),
          fmode \in Input(FloatModes, q_stack[0] = "GET_POSITION"),
          wrap \in Input(BOOLEAN, q_stack[0] = "GET_POSITION") :
          LET r == quest_function_dispatch(q_stack, clients, now, g, fmode)
          IN  /\ status' = r.status
              /\ writes' = r.writes
              /\ drawn' = r.drawn
              /\ regs' = ApplyWrites(regs, r.writes, wrap)
              /\ rng_out' = IF r.drawn THEN g ELSE rng_out
    /\ qpc' = "done"
    /\ UNCHANGED <<q_stack, clients, svars>>

QNext == PushFrame \/ QuestCall


-----------------------------------------------------------------------------
(* The hook engine, scripts.c.                                              *)
(*                                                                          *)
(* Lua values are records [k, ev, id]: k is the kind of the value, and for  *)
(* a compiled chunk ("fn") ev is the action it was loaded for and id the    *)
(* number of the luaL_loadfile call that compiled it, which tells a handler *)
(* from the one it replaced.                                                *)

\* the script actions modelled (script_action_t has 18)
NumActions == 2

\* the longest <scripts> document, in child nodes
MaxEntries == 2

\* the most arguments before the end (or the bad tag) of a script_execute call
MaxArgs == 1

\* the number of calls in a run of Spec, and in a run of ConcSpec
MaxOps == 5
MaxConcOps == 3

\* the threads of ConcSpec; Spec runs thread 1 alone
NumThreads == 2

Actions == 0..(NumActions - 1)
Threads == 1..NumThreads

Val(k, ev, id) == [k |-> k, ev |-> ev, id |-> id]
Nil == Val("nil", 0, 0)          \* nil
Integer(n) == Val("int", 0, n)       \* an integer
Fn(ev, id) == Val("fn", ev, id)  \* a compiled chunk
Tbl == Val("tbl", 0, 0)          \* the scripts table whose content is slots, tfree
Old == Val("old", 0, 0)          \* the scripts table of an earlier load
Msg == Val("msg", 0, 0)          \* a string (an error message, a result)
Numeral(n) == Val("num", 0, n)   \* a float or a string whose value is n
Arg == Val("arg", 0, 0)          \* an argument pushed by script_execute
Below == Val("below", 0, 0)      \* what an index below the stack's base names
NoHandler == Val("none", 0, 0)   \* no handler (ran, bound)

\* the reference luaL_ref(lstate, LUA_REGISTRYINDEX) hands out: indices 1 and
\* 2 of the registry are Lua's own, the next is handed out, and handed out
\* again after each luaL_unref
RegistryRef == 3

\* what luaL_ref may return when it is applied to something that is not the
\* scripts table
JunkRefs == {1, 2}

\* lua_tointeger, lua_tointegerx: an integer, and a float or a string that
\* has an integer value, convert to that integer; anything else gives 0
ToInteger(v) == IF v.k \in {"int", "num"} THEN v.id ELSE 0

-----------------------------------------------------------------------------
(* The interpreter state as a record, and the Lua API calls the code makes. *)
(* A call whose behaviour Lua leaves undefined (an index that names no      *)
(* table, an index below the stack) yields every outcome considered: the    *)
(* process crashes, or the call has no effect.  rv, ran, ok and ref carry   *)
(* the results of a routine: its return value, the handler lua_pcall ran,   *)
(* whether lua_pcall returned LUA_OK, the reference luaL_ref returned.      *)

Cur ==
    [lstate |-> lstate, scripts_ref |-> scripts_ref, script_ids |-> script_ids,
     registry |-> registry, slots |-> slots, tfree |-> tfree,
     lstack |-> lstack, nloads |-> nloads, crashed |-> crashed,
     rv |-> 0, ran |-> NoHandler, ok |-> TRUE, ref |-> 0]

Crash(s) == [s EXCEPT !.crashed = TRUE]

\* lua_push*, lua_newtable, luaL_loadfile's result
Push(s, v) == [s EXCEPT !.lstack = Append(@, v)]

RECURSIVE PushN(_, _, _)
PushN(s, n, v) == IF n = 0 THEN s ELSE PushN(Push(s, v), n - 1, v)

\* lua_pop(lstate, n)
Pop(s, n) ==
    [s EXCEPT !.lstack = IF n >= Len(@) THEN <<>> ELSE SubSeq(@, 1, Len(@) - n)]

\* the value at stack index -i
At(s, i) ==
    IF i <= Len(s.lstack) THEN s.lstack[Len(s.lstack) + 1 - i] ELSE Below

\* t[i] of the scripts table
GetSlot(s, i) == IF i \in 1..Len(s.slots) THEN s.slots[i] ELSE Nil

\* t[i] = v of the scripts table
SetSlot(sl, i, v) ==
    [j \in 1..(IF i > Len(sl) THEN i ELSE Len(sl)) |->
        IF j = i THEN v ELSE IF j <= Len(sl) THEN sl[j] ELSE Nil]

\* every Lua API call dereferences lstate
Using(s, R) == IF s.lstate = "open" THEN R ELSE {Crash(s)}

\* luaL_unref(lstate, idx, ref), t the value at idx:
\*   t[ref] = t[0]; t[0] = ref
luaL_unref(s, t, ref) ==
    IF s.crashed THEN {s}
    ELSE IF t.k = "tbl"
    THEN {[s EXCEPT !.slots = SetSlot(@, ref, s.tfree), !.tfree = Integer(ref)]}
    ELSE IF t.k = "old" THEN {s}
    ELSE {Crash(s), s}

\* luaL_ref(lstate, idx), t the value at idx, the referenced value on top:
\*   ref = t[0]; if ref != 0 then t[0] = t[ref] else ref = #t + 1; t[ref] = top
luaL_ref(s, t) ==
    IF s.crashed THEN {s}
    ELSE LET v == At(s, 1)
             popped == Pop(s, 1)
             f == ToInteger(s.tfree)
             ref == IF f # 0 THEN f ELSE Len(s.slots) + 1
         IN  IF t.k = "tbl"
             THEN {[popped EXCEPT !.slots = SetSlot(@, ref, v),
                                  !.tfree = IF f # 0 THEN GetSlot(s, f) ELSE @,
                                  !.ref = ref]}
             ELSE IF t.k = "old"
             THEN {[popped EXCEPT !.ref = j] : j \in JunkRefs}
             ELSE {Crash(s)} \cup {[popped EXCEPT !.ref = j] : j \in JunkRefs}

\* lua_rawgeti(lstate, -1, id): pushes t[id] of the table on top
lua_rawgeti_top(s, id) ==
    IF s.crashed THEN {s}
    ELSE IF At(s, 1).k = "tbl" THEN {Push(s, GetSlot(s, id))}
    ELSE {Crash(s), Push(s, Nil)}

\* what a handler does when it is called: it returns an integer, raises an
\* error, returns something lua_tointegerx cannot convert ("nonint": nil, a
\* table, a float with a fraction), or returns something that is not an
\* integer and that lua_tointegerx converts ("num": 5.0, "5")
HandlerOutcomes ==
    {[k |-> "int", v |-> 7], [k |-> "error", v |-> 0],
     [k |-> "nonint", v |-> 0], [k |-> "num", v |-> 5]}

\* lua_pcall(lstate, nargs, 1, 0): the callee is below its nargs arguments;
\* callee and arguments are replaced by one result or one error message.
\* Calling a value that is not a function is an error, and runs nothing.
lua_pcall(s, nargs, outcome) ==
    LET f == At(s, nargs + 1)
        base == Pop(s, nargs + 1)
    IN  IF f.k # "fn" THEN [Push(base, Msg) EXCEPT !.ok = FALSE]
        ELSE IF outcome.k = "error"
        THEN [Push(base, Msg) EXCEPT !.ok = FALSE, !.ran = f]
        ELSE IF outcome.k = "int"
        THEN [Push(base, Integer(outcome.v)) EXCEPT !.ok = TRUE, !.ran = f]
        ELSE IF outcome.k = "num"
        THEN [Push(base, Numeral(outcome.v)) EXCEPT !.ok = TRUE, !.ran = f]
        ELSE [Push(base, Msg) EXCEPT !.ok = TRUE, !.ran = f]

-----------------------------------------------------------------------------
(* The routines of scripts.c, each from its state at entry to the set of    *)
(* states it may return in.  The part of a routine that runs with           *)
(* script_mutex held is named _locked.                                      *)

\* lua_rawgeti(lstate, LUA_REGISTRYINDEX, scripts_ref)
PushScriptsTable(s) == Push(s, s.registry)

\* script_add releasing the action's old reference before it loads the file
script_add_UnrefBeforeLoad(s, action, loadok) ==
    Using(s,
      LET s1 == PushScriptsTable(s)
          A == IF s1.script_ids[action] # 0
               THEN luaL_unref(s1, At(s1, 1), s1.script_ids[action])
               ELSE {s1}
          B == UNION {luaL_ref([Push(a, Fn(action, a.nloads + 1))
                                   EXCEPT !.nloads = @ + 1], At(a, 1))
                      : a \in A}
      IN  IF ~loadok
          THEN {IF a.crashed THEN a
                ELSE [Pop(Push(a, Msg), 1) EXCEPT !.rv = -1] : a \in A}
          ELSE {IF b.crashed THEN b
                ELSE [Pop(b, 1) EXCEPT !.script_ids[action] = b.ref, !.rv = 0]
                : b \in B})

\* script_add between pthread_mutex_lock and pthread_mutex_unlock.  A failed
\* luaL_loadfile leaves its message on the table, and one lua_pop removes it.
script_add_locked(s, action, loadok) ==
    Using(s,
      LET s1 == PushScriptsTable(s)
          s2 == [Push(s1, Fn(action, s1.nloads + 1)) EXCEPT !.nloads = @ + 1]
          A == IF s2.script_ids[action] # 0
               THEN luaL_unref(s2, At(s2, 2), s2.script_ids[action])
               ELSE {s2}
          B == UNION {luaL_ref(a, At(a, 2)) : a \in A}
      IN  IF ~loadok THEN {[Pop(Push(s1, Msg), 1) EXCEPT !.rv = -1]}
          ELSE {IF b.crashed THEN b
                ELSE [Pop(b, 1) EXCEPT !.script_ids[action] = b.ref, !.rv = 0]
                : b \in B})

\* script_remove between lock and unlock.  The table is pushed on top, and
\* luaL_unref is given index -2: what lies under the table.
script_remove_locked(s, action) ==
    IF s.script_ids[action] = 0 THEN {[s EXCEPT !.rv = -1]}
    ELSE Using(s,
           LET s1 == PushScriptsTable(s)
               A == luaL_unref(s1, At(s1, 2), s1.script_ids[action])
           IN  {IF a.crashed THEN a ELSE [Pop(a, 1) EXCEPT !.rv = 0] : a \in A})

\* the end of both script_execute routines with the error message of a failed
\* lua_pcall left on the stack
CallHandler_KeepsMessage(s, nargs, outcome) ==
    LET s1 == lua_pcall(s, nargs, outcome)
    IN  IF ~s1.ok THEN [Pop(s1, 1) EXCEPT !.rv = 0]
        ELSE [Pop(Pop(s1, 1), 1) EXCEPT !.rv = ToInteger(At(s1, 1))]

\* the end of both script_execute routines: lua_pcall, then the result
CallHandler(s, nargs, outcome) ==
    LET s1 == lua_pcall(s, nargs, outcome)
    IN  IF ~s1.ok THEN [Pop(Pop(s1, 1), 1) EXCEPT !.rv = 0]
        ELSE [Pop(Pop(s1, 1), 1) EXCEPT !.rv = ToInteger(At(s1, 1))]

\* script_execute_pkt between lock and unlock: the client and the packet are
\* the two arguments
script_execute_pkt_locked(s, event, outcome) ==
    Using(s,
      LET s1 == PushScriptsTable(s)
      IN  IF s1.script_ids[event] = 0 THEN {[Pop(s1, 1) EXCEPT !.rv = 0]}
          ELSE {IF a.crashed THEN a
                ELSE CallHandler(PushN(a, 2, Arg), 2, outcome)
                : a \in lua_rawgeti_top(s1, s1.script_ids[event])})

\* script_execute between lock and unlock: argcount arguments are pushed, and
\* then either the list ends or a tag that is not a SCRIPT_ARG_ follows
script_execute_locked(s, event, argcount, badtag, outcome) ==
    Using(s,
      LET s1 == PushScriptsTable(s)
      IN  IF s1.script_ids[event] = 0 THEN {[Pop(s1, 1) EXCEPT !.rv = 0]}
          ELSE {IF a.crashed THEN a
                ELSE IF badtag
                THEN [Pop(Pop(PushN(a, argcount, Arg), argcount), 1)
                         EXCEPT !.rv = 0]
                ELSE CallHandler(PushN(a, argcount, Arg), argcount, outcome)
                : a \in lua_rawgeti_top(s1, s1.script_ids[event])})

\* A <scripts> document is rejected (-1 no parser context, -2 unreadable,
\* -3 invalid, -4 empty, -5 wrong root) or read (0), and then the children of
\* its root are its entries.
Entry(kind, ev) == [kind |-> kind, ev |-> ev]

Verdicts == {0, -1, -2, -3, -4, -5}

Script(ev) == Entry("script", ev)      \* <script event= file=>, file compiles
Broken(ev) == Entry("loadfail", ev)    \* the same, luaL_loadfile fails
Skipped(kind) == Entry(kind, 0)        \* a child the loop passes over

\* the children of the root, in the documents considered
Bodies ==
    {<<>>,
     <<Script(0)>>, <<Script(1)>>,
     <<Script(0), Script(1)>>, <<Script(1), Script(0)>>,
     <<Script(0), Script(0)>>,
     <<Broken(0)>>, <<Broken(0), Script(1)>>, <<Script(0), Broken(1)>>,
     <<Skipped("text"), Script(0)>>, <<Skipped("badtag")>>,
     <<Skipped("incomplete"), Script(1)>>, <<Skipped("unknown")>>,
     <<Script(0), Script(1), Script(0)>>}

Documents == {b \in Bodies : Len(b) <= MaxEntries}

\* lua_newtable: a new, empty table is the scripts table from here on, and a
\* reference to the previous one that is still on the stack is to an old table
NewTable(s) ==
    Push([s EXCEPT !.slots = <<>>, !.tfree = Nil,
                   !.lstack = [i \in DOMAIN s.lstack |->
                                  IF s.lstack[i].k = "tbl" THEN Old
                                  ELSE s.lstack[i]]],
         Tbl)

\* script_eventlist_read up to lua_newtable
script_eventlist_read_open(s, verdict) ==
    LET A == IF s.scripts_ref # 0
             THEN Using(s, {[s EXCEPT !.registry = Nil]})
             ELSE {s}
    IN  UNION {IF a.crashed THEN {a}
               ELSE IF verdict # 0 THEN {[a EXCEPT !.rv = verdict]}
               ELSE Using(a, {NewTable(a)})
               : a \in A}

\* one child of the root
ReadEntry(s, e) ==
    IF s.crashed \/ e.kind \in {"text", "badtag", "incomplete", "unknown"}
    THEN {s}
    ELSE IF e.kind = "loadfail" THEN {Push(s, Msg)}
    ELSE LET s1 == [Push(s, Fn(e.ev, s.nloads + 1)) EXCEPT !.nloads = @ + 1]
         IN  {IF b.crashed THEN b ELSE [b EXCEPT !.script_ids[e.ev] = b.ref]
              : b \in luaL_ref(s1, At(s1, 2))}

RECURSIVE ReadEntries(_, _)
ReadEntries(S, es) ==
    IF es = <<>> THEN S
    ELSE ReadEntries(UNION {ReadEntry(s, Head(es)) : s \in S}, Tail(es))

\* scripts_ref = luaL_ref(lstate, LUA_REGISTRYINDEX): the top of the stack
\* goes to the registry
StoreTable(s) ==
    IF s.crashed THEN {s}
    ELSE IF At(s, 1).k = "below" THEN {Crash(s)}
    ELSE {[Pop(s, 1) EXCEPT !.registry = At(s, 1),
                            !.scripts_ref = RegistryRef, !.rv = 0]}

\* script_eventlist_read from the loop over the children to the return
script_eventlist_read_load(s, entries) ==
    Using(s, UNION {StoreTable(a) : a \in ReadEntries({s}, entries)})

\* init_scripts up to its call of script_eventlist_read; ok says whether that
\* call is reached: not when the path buffer cannot be allocated, when an
\* interpreter exists already, or when luaL_newstate fails
init_scripts_open(s, alloc) ==
    IF alloc = "nopath" \/ s.lstate # "null" \/ alloc = "nostate"
    THEN [s EXCEPT !.ok = FALSE]
    ELSE [s EXCEPT !.lstate = "open", !.lstack = <<>>, !.registry = Nil,
                   !.slots = <<>>, !.tfree = Nil, !.ok = TRUE]

\* cleanup_scripts
cleanup_scripts(s) ==
    IF s.lstate = "null" THEN s
    ELSE [s EXCEPT !.lstate = "null", !.scripts_ref = 0,
                   !.script_ids = [a \in Actions |-> 0],
                   !.registry = Nil, !.slots = <<>>, !.tfree = Nil,
                   !.lstack = <<>>]

-----------------------------------------------------------------------------
(* The threads.  A thread is idle, or inside one call: at "lock" it waits   *)
(* for script_mutex, at "crit" it holds it, at "load" it is inside          *)
(* script_eventlist_read, between lua_newtable and the loop over the        *)
(* document.  op is the call a thread is in, done the last call it          *)
(* returned from.                                                            *)
(*                                                                          *)
(* bound and how are not state of the program: they follow what the         *)
(* registry's contract says each action is bound to after the calls that    *)
(* have returned, and by which call.  A returned call records in done the   *)
(* contract's binding of its action at the time it ran.                     *)

Op(kind, ev) == [kind |-> kind, ev |-> ev]

NoOp == Op("none", 0)

Ret(kind, ev, rv, ran) ==
    [kind |-> kind, ev |-> ev, rv |-> rv, ran |-> ran,
     want |-> bound[ev], how |-> how[ev], delta |-> 0, out |-> "none"]

\* the record of a call that returns from its locked part in the interpreter
\* state o: delta is the number of values the call left on the Lua stack,
\* out what the handler did if one ran
LockedRet(kind, ev, o, out) ==
    [Ret(kind, ev, o.rv, o.ran) EXCEPT
        !.delta = Len(o.lstack) - Len(lstack),
        !.out = IF o.ran = NoHandler THEN "none" ELSE out]

\* the variables of the interpreter take the values of the record o
Commit(o) ==
    /\ lstate' = o.lstate
    /\ scripts_ref' = o.scripts_ref
    /\ script_ids' = o.script_ids
    /\ registry' = o.registry
    /\ slots' = o.slots
    /\ tfree' = o.tfree
    /\ lstack' = o.lstack
    /\ nloads' = o.nloads
    /\ crashed' = o.crashed

Interp == <<lstate, scripts_ref, script_ids, registry, slots, tfree, lstack,
            nloads, crashed>>

\* a call returns to its caller
Return(t, r) ==
    /\ pc' = [pc EXCEPT ![t] = "idle"]
    /\ op' = [op EXCEPT ![t] = NoOp]
    /\ done' = [done EXCEPT ![t] = r]

\* a call goes on to pthread_mutex_lock
Enter(t, o) ==
    /\ pc' = [pc EXCEPT ![t] = "lock"]
    /\ op' = [op EXCEPT ![t] = o]
    /\ UNCHANGED done

\* a thread starts a call
Begin(t, budget) ==
    /\ ~crashed
    /\ pc[t] = "idle"
    /\ nops < budget
    /\ nops' = nops + 1

\* snprintf(realfn, 64, "scripts/%s", filename) writes the name and one NUL:
\* realfn[63] is that NUL for a name that fills the buffer, and was never
\* written for a shorter one
realfn63(fits, garbage) == IF fits THEN garbage ELSE 0

\* the handler of a source that a successful script_add never compiled
Uncompiled(action) == Fn(action, 0)

\* script_add up to pthread_mutex_lock.  It returns 0 when scripts_ref is 0;
\* with an interpreter that is a successful registration for the contract.
CallAdd(t, budget) ==
    /\ Begin(t, budget)
    /\ \E action \in Actions, fits \in BOOLEAN, garbage \in {0, 65} :
          IF scripts_ref = 0
          THEN /\ Return(t, Ret("add", action, 0, NoHandler))
               /\ IF lstate = "open"
                  THEN /\ bound' = [bound EXCEPT ![action] = Uncompiled(action)]
                       /\ how' = [how EXCEPT ![action] =
                                    IF bound[action] = NoHandler THEN "add"
                                    ELSE "readd"]
                  ELSE UNCHANGED <<bound, how>>
          ELSE /\ IF realfn63(fits, garbage) # 0
                  THEN Return(t, Ret("add", action, -1, NoHandler))
                  ELSE Enter(t, Op("add", action))
               /\ UNCHANGED <<bound, how>>
    /\ UNCHANGED <<Interp, script_mutex, qvars>>

\* script_remove up to pthread_mutex_lock
CallRemove(t, budget) ==
    /\ Begin(t, budget)
    /\ \E action \in Actions :
          IF scripts_ref = 0
          THEN Return(t, Ret("remove", action, 0, NoHandler))
          ELSE Enter(t, Op("remove", action))
    /\ UNCHANGED <<Interp, script_mutex, bound, how, qvars>>

\* script_execute up to pthread_mutex_lock
CallExecute(t, budget) ==
    /\ Begin(t, budget)
    /\ \E event \in Actions :
          IF scripts_ref = 0
          THEN Return(t, Ret("execute", event, 0, NoHandler))
          ELSE Enter(t, Op("execute", event))
    /\ UNCHANGED <<Interp, script_mutex, bound, how, qvars>>

\* script_execute_pkt up to pthread_mutex_lock
CallExecutePkt(t, budget) ==
    /\ Begin(t, budget)
    /\ \E event \in Actions :
          IF scripts_ref = 0
          THEN Return(t, Ret("execute_pkt", event, 0, NoHandler))
          ELSE Enter(t, Op("execute_pkt", event))
    /\ UNCHANGED <<Interp, script_mutex, bound, how, qvars>>

\* pthread_mutex_lock(&script_mutex)
Lock(t) ==
    /\ ~crashed
    /\ pc[t] = "lock"
    /\ script_mutex = 0
    /\ script_mutex' = t
    /\ pc' = [pc EXCEPT ![t] = "crit"]
    /\ UNCHANGED <<Interp, op, done, nops, bound, how, qvars>>

\* pthread_mutex_unlock(&script_mutex), which a crashed process never reaches
Unlock(o) == script_mutex' = IF o.crashed THEN script_mutex ELSE 0

\* the locked part of script_add, to its return; the file compiles or not
AddLocked(t) ==
    /\ ~crashed
    /\ pc[t] = "crit"
    /\ op[t].kind = "add"
    /\ \E loadok \in BOOLEAN :
       \E o \in script_add_locked(Cur, op[t].ev, loadok) :
          /\ Commit(o)
          /\ Unlock(o)
          /\ Return(t, LockedRet("add", op[t].ev, o, "none"))
          /\ IF o.rv = 0 /\ ~o.crashed
             THEN /\ bound' = [bound EXCEPT ![op[t].ev] = Fn(op[t].ev, o.nloads)]
                  /\ how' = [how EXCEPT ![op[t].ev] =
                               IF bound[op[t].ev] = NoHandler THEN "add"
                               ELSE "readd"]
             ELSE UNCHANGED <<bound, how>>
    /\ UNCHANGED <<nops, qvars>>

\* the locked part of script_remove, to its return
RemoveLocked(t) ==
    /\ ~crashed
    /\ pc[t] = "crit"
    /\ op[t].kind = "remove"
    /\ \E o \in script_remove_locked(Cur, op[t].ev) :
          /\ Commit(o)
          /\ Unlock(o)
          /\ Return(t, LockedRet("remove", op[t].ev, o, "none"))
          /\ IF o.rv = 0 /\ ~o.crashed
             THEN /\ bound' = [bound EXCEPT ![op[t].ev] = NoHandler]
                  /\ how' = [how EXCEPT ![op[t].ev] = "unreg"]
             ELSE UNCHANGED <<bound, how>>
    /\ UNCHANGED <<nops, qvars>>

\* the locked part of script_execute, to its return: it reads the caller's
\* argument list, and the handler behaves as it will.  A call whose list has
\* a bad tag is recorded as "execute_badarg".
ExecuteLocked(t) ==
    /\ ~crashed
    /\ pc[t] = "crit"
    /\ op[t].kind = "execute"
    /\ \E argcount \in 0..MaxArgs, badtag \in BOOLEAN,
          outcome \in HandlerOutcomes :
       \E o \in script_execute_locked(Cur, op[t].ev, argcount, badtag,
                                      outcome) :
          /\ Commit(o)
          /\ Unlock(o)
          /\ Return(t, LockedRet(IF badtag THEN "execute_badarg"
                                 ELSE "execute", op[t].ev, o, outcome.k))
    /\ UNCHANGED <<nops, bound, how, qvars>>

\* the locked part of script_execute_pkt, to its return
ExecutePktLocked(t) ==
    /\ ~crashed
    /\ pc[t] = "crit"
    /\ op[t].kind = "execute_pkt"
    /\ \E outcome \in HandlerOutcomes :
       \E o \in script_execute_pkt_locked(Cur, op[t].ev, outcome) :
          /\ Commit(o)
          /\ Unlock(o)
          /\ Return(t, LockedRet("execute_pkt", op[t].ev, o, outcome.k))
    /\ UNCHANGED <<nops, bound, how, qvars>>

\* the bindings a document declares: one for each entry that names an action
\* and whose chunk compiles, a later entry replacing an earlier one; n chunks
\* were compiled before the document is read
RECURSIVE Declared(_, _, _)
Declared(es, n, b) ==
    IF es = <<>> THEN b
    ELSE IF Head(es).kind = "script"
    THEN Declared(Tail(es), n + 1,
                  [b EXCEPT ![Head(es).ev] = Fn(Head(es).ev, n + 1)])
    ELSE Declared(Tail(es), n, b)

Unbound == [a \in Actions |-> NoHandler]

\* script_eventlist_read up to lua_newtable, called as kind ("reload" by the
\* caller, "init" by init_scripts) in the interpreter state s.  The call
\* returns here when the document is rejected; the contract keeps every
\* binding then.
ReadOpen(t, kind, s, verdict) ==
    \E o \in script_eventlist_read_open(s, verdict) :
        /\ Commit(o)
        /\ IF o.crashed \/ verdict # 0
           THEN Return(t, Ret(kind, 0, o.rv, NoHandler))
           ELSE /\ pc' = [pc EXCEPT ![t] = "load"]
                /\ op' = [op EXCEPT ![t] = Op(kind, 0)]
                /\ UNCHANGED done
        /\ IF ~o.crashed /\ verdict # 0
           THEN how' = [a \in Actions |->
                           IF bound[a] # NoHandler THEN "kept" ELSE how[a]]
           ELSE UNCHANGED how
        /\ UNCHANGED bound

\* script_eventlist_read, called to reload the registry
CallReload(t, budget) ==
    /\ Begin(t, budget)
    /\ \E verdict \in Verdicts : ReadOpen(t, "reload", Cur, verdict)
    /\ UNCHANGED <<script_mutex, qvars>>

\* init_scripts, to the lua_newtable of its script_eventlist_read
Start(t, budget) ==
    /\ Begin(t, budget)
    /\ \E alloc \in {"ok", "nopath", "nostate"}, verdict \in Verdicts :
          LET i == init_scripts_open(Cur, alloc)
          IN  IF i.ok THEN ReadOpen(t, "init", i, verdict)
              ELSE /\ Commit(i)
                   /\ Return(t, Ret("init", 0, 0, NoHandler))
                   /\ UNCHANGED <<bound, how>>
    /\ UNCHANGED <<script_mutex, qvars>>

\* script_eventlist_read from the loop over the document to its return
ReadLoad(t) ==
    /\ ~crashed
    /\ pc[t] = "load"
    /\ \E entries \in Documents :
       \E o \in script_eventlist_read_load(Cur, entries) :
          /\ Commit(o)
          /\ Return(t, Ret(op[t].kind, 0, o.rv, NoHandler))
          /\ IF o.crashed THEN UNCHANGED <<bound, how>>
             ELSE /\ bound' = Declared(entries, nloads, Unbound)
                  /\ how' = [a \in Actions |->
                               IF bound'[a] # NoHandler THEN "reload"
                               ELSE "unlisted"]
    /\ UNCHANGED <<script_mutex, nops, qvars>>

\* cleanup_scripts
Stop(t, budget) ==
    /\ Begin(t, budget)
    /\ Commit(cleanup_scripts(Cur))
    /\ Return(t, Ret("cleanup", 0, 0, NoHandler))
    /\ IF lstate = "null" THEN UNCHANGED <<bound, how>>
       ELSE /\ bound' = Unbound
            /\ how' = [a \in Actions |-> "stopped"]
    /\ UNCHANGED <<script_mutex, qvars>>

\* the static initialisers of scripts.c, and no thread in a call
SInit ==
    /\ lstate = "null"
    /\ scripts_ref = 0
    /\ script_ids = [a \in Actions |-> 0]
    /\ registry = Nil
    /\ slots = <<>>
    /\ tfree = Nil
    /\ lstack = <<>>
    /\ nloads = 0
    /\ script_mutex = 0
    /\ pc = [t \in Threads |-> "idle"]
    /\ op = [t \in Threads |-> NoOp]
    /\ done = [t \in Threads |->
                 [kind |-> "none", ev |-> 0, rv |-> 0, ran |-> NoHandler,
                  want |-> NoHandler, how |-> "never", delta |-> 0,
                  out |-> "none"]]
    /\ crashed = FALSE
    /\ nops = 0
    /\ bound = Unbound
    /\ how = [a \in Actions |-> "never"]

\* the hook engine before init_scripts, beside an idle dispatcher
Init == QIdle /\ clients = [i \in 0..3 |-> NoClient] /\ SInit

\* the dispatcher in any lobby, beside a hook engine that is never started
QInit == QIdle /\ clients \in Lobbies /\ SInit

\* one step of thread t, which makes at most budget calls
Step(t, budget) ==
    \/ Start(t, budget)
    \/ Stop(t, budget)
    \/ CallReload(t, budget)
    \/ ReadLoad(t)
    \/ CallAdd(t, budget)
    \/ CallRemove(t, budget)
    \/ CallExecute(t, budget)
    \/ CallExecutePkt(t, budget)
    \/ Lock(t)
    \/ AddLocked(t)
    \/ RemoveLocked(t)
    \/ ExecuteLocked(t)
    \/ ExecutePktLocked(t)

\* one thread makes the calls, one after the other
Next == Step(1, MaxOps)

Spec == Init /\ [][Next]_vars

\* the threads make the calls, in any interleaving
ConcNext == \E t \in Threads : Step(t, MaxConcOps)

ConcSpec == Init /\ [][ConcNext]_vars

\* the part of a call that runs with script_mutex held
Locked(t) ==
    AddLocked(t) \/ RemoveLocked(t) \/ ExecuteLocked(t) \/ ExecutePktLocked(t)

\* the threads make the calls in any interleaving; a thread that holds
\* script_mutex goes on running (every handler terminates), and a thread that
\* waits for script_mutex gets it if it is free again and again
FairSpec ==
    /\ Init
    /\ [][ConcNext]_vars
    /\ \A t \in Threads : WF_vars(Locked(t)) /\ SF_vars(Lock(t))

\* the dispatcher alone
QSpec == QInit /\ [][QNext]_vars

-----------------------------------------------------------------------------
(* Properties of the dispatcher (checked under QSpec)                       *)

Returned == qpc = "done"

\* the routine issued no register write and the register file is as it was
NoRegisterWritten == writes = <<>> /\ regs = Unwritten

\* the number of arguments each function declares
Arity(f) == IF f \in {"TIME", "CLIENT_COUNT"} THEN 0
            ELSE IF f = "GET_RANDOM" THEN 2 ELSE 1

IsBroadcast(q) == q[0] \in TargetFuncs /\ q[3] = BROADCAST
IsTargeted(q) == q[0] \in TargetFuncs /\ q[3] < 4
ValidTarget(q) == q[0] \in TargetFuncs => (q[3] = BROADCAST \/ q[3] < 4)

\* the number of results the frame's form declares
ExpectedRet(q) == IF IsBroadcast(q) THEN 4 ELSE 1

\* the words of the frame that name result registers
RegisterArgs(q) ==
    IF IsBroadcast(q) THEN {q[4], q[5], q[6], q[7]}
    ELSE IF IsTargeted(q) THEN {q[4]}
    ELSE IF q[0] = "GET_RANDOM" THEN {q[5]}
    ELSE {q[3]}

\* the register indices the frame designates for lobby slot i in the
\* broadcast form: one register, or three consecutive ones for a position
Designated(q, i) ==
    IF q[0] = "GET_POSITION" THEN {q[4 + i], q[4 + i] + 1, q[4 + i] + 2}
    ELSE {q[4 + i]}

\* C5: every register index that the dispatch passes to a register write is
\* below 256, for every frame and every function, the position query with
\* its base, base + 1 and base + 2 included.
C5_RegisterIndicesInRange ==
    \A k \in 1..Len(writes) : writes[k].reg <= MaxRegister

\* C6: when arg_count and return_count pass validation and the target word
\* (where there is one) is a valid target, a register-index argument of 256
\* or more makes the dispatch return INVALID_REGISTER and write no register;
\* for the random function this holds for every (min, max), min >= max
\* included.
C6_InvalidRegisterNoWrite ==
    (/\ Returned
     /\ q_stack[0] \in KnownFuncs
     /\ q_stack[1] = Arity(q_stack[0])
     /\ ValidTarget(q_stack)
     /\ q_stack[2] = ExpectedRet(q_stack)
     /\ \E r \in RegisterArgs(q_stack) : r > MaxRegister)
    => (status = QUEST_FUNC_RET_INVALID_REGISTER /\ NoRegisterWritten)

C6_Witness ==
    /\ Returned
    /\ q_stack[0] = "GET_RANDOM" /\ q_stack[1] = 2 /\ q_stack[2] = 1
    /\ q_stack[3] >= q_stack[4]
    /\ q_stack[5] > MaxRegister
    /\ status = QUEST_FUNC_RET_INVALID_REGISTER
    /\ NoRegisterWritten

\* C7 as amended: with a known function and a correct arg_count, a
\* return_count other than 1 for time, client count and random, other than
\* 4 for a target function with the BROADCAST target, other than 1 for a
\* target function with a target below 4, gives BAD_RET_COUNT and no
\* register write; a target that is neither BROADCAST nor below 4 gives
\* INVALID_ARG and no register write whatever return_count is.
C7_BadRetCount ==
    (/\ Returned
     /\ q_stack[0] \in KnownFuncs
     /\ q_stack[1] = Arity(q_stack[0]))
    => /\ (ValidTarget(q_stack) /\ q_stack[2] # ExpectedRet(q_stack))
            => (status = QUEST_FUNC_RET_BAD_RET_COUNT /\ NoRegisterWritten)
       /\ ~ValidTarget(q_stack)
            => (status = QUEST_FUNC_RET_INVALID_ARG /\ NoRegisterWritten)

C7_Witness ==
    /\ Returned
    /\ q_stack[0] = "GET_CLASS" /\ q_stack[1] = 1
    /\ q_stack[3] = BROADCAST /\ q_stack[2] = 1
    /\ status = QUEST_FUNC_RET_BAD_RET_COUNT
    /\ NoRegisterWritten

\* C7 as stated: in addition, for a target function a return_count that is
\* neither 1 nor 4 gives BAD_RET_COUNT whatever the target word is.
C7_Original ==
    (/\ Returned
     /\ q_stack[0] \in KnownFuncs
     /\ q_stack[1] = Arity(q_stack[0])
     /\ \/ (ValidTarget(q_stack) /\ q_stack[2] # ExpectedRet(q_stack))
        \/ (q_stack[0] \in TargetFuncs /\ q_stack[2] \notin {1, 4}))
    => (status = QUEST_FUNC_RET_BAD_RET_COUNT /\ NoRegisterWritten)

\* C8: with a known function, an arg_count that differs from the function's
\* arity (0 for time and client count, 2 for random, 1 otherwise) gives
\* BAD_ARG_COUNT and no register write, whatever the other words are.
C8_BadArgCount ==
    (/\ Returned
     /\ q_stack[0] \in KnownFuncs
     /\ q_stack[1] # Arity(q_stack[0]))
    => (status = QUEST_FUNC_RET_BAD_ARG_COUNT /\ NoRegisterWritten)

C8_Witness ==
    /\ Returned
    /\ q_stack[0] = "GET_RANDOM" /\ q_stack[1] = 1
    /\ q_stack[2] # 1 /\ q_stack[5] > MaxRegister
    /\ status = QUEST_FUNC_RET_BAD_ARG_COUNT
    /\ NoRegisterWritten

\* a later slot of the lobby is designated register r as well (an index
\* above 255 counted as the register its low 8 bits name)
SharedWithLater(q, i, r) ==
    \E j \in (i + 1)..3 :
        \E d \in Designated(q, j) : d % (MaxRegister + 1) = r

\* C9 as amended: after a broadcast-form query that returned NO_ERROR, for
\* every absent lobby slot i, each register designated for slot i holds
\* 0xFFFFFFFF unless the frame designates the same register for a later
\* slot (whose write, being later, decides what the register holds).
C9_AbsentMemberSentinel ==
    (Returned /\ IsBroadcast(q_stack) /\ status = QUEST_FUNC_RET_NO_ERROR)
    => \A i \in 0..3 :
          ~clients[i].present
          => \A r \in Designated(q_stack, i) \cap Registers :
                ~SharedWithLater(q_stack, i, r) => Reg(regs, r) = BROADCAST

C9_Witness ==
    /\ Returned /\ IsBroadcast(q_stack) /\ status = QUEST_FUNC_RET_NO_ERROR
    /\ q_stack[0] = "GET_POSITION"
    /\ ~clients[1].present /\ clients[0].present /\ clients[2].present
    /\ \A r \in Designated(q_stack, 1) : r \in Registers /\ Reg(regs, r) = BROADCAST
    /\ Reg(regs, q_stack[4]) # BROADCAST

\* C9 as stated: whatever registers the frame designates for the other
\* slots, the registers of an absent slot hold 0xFFFFFFFF.
C9_Original ==
    (Returned /\ IsBroadcast(q_stack) /\ status = QUEST_FUNC_RET_NO_ERROR)
    => \A i \in 0..3 :
          ~clients[i].present
          => \A r \in Designated(q_stack, i) \cap Registers :
                Reg(regs, r) = BROADCAST


-----------------------------------------------------------------------------
(* Properties of the hook engine (checked under Spec and ConcSpec)          *)

\* thread t is between the first and the last access of a call to the Lua
\* stack, the scripts table or script_ids
InInterpreter(t) == pc[t] \in {"crit", "load"}

\* thread t has returned from an invocation with a well-formed argument list
Invoked(t) == done[t].kind \in {"execute", "execute_pkt"}

\* C1: at most one thread at a time is inside the interpreter state (the
\* first half of the claim; the second is that a thread inside holds
\* script_mutex).
C1_MutualExclusion ==
    \A t, u \in Threads :
        InInterpreter(t) /\ InInterpreter(u) => t = u

\* C2: an invocation of an action whose binding the last successful call on
\* it unregistered returns 0 and runs no handler.
C2_UnregisteredRunsNothing ==
    \A t \in Threads :
        Invoked(t) /\ done[t].how = "unreg" =>
            done[t].ran = NoHandler /\ done[t].rv = 0

\* C3: after a successful script_eventlist_read, an invocation of an action
\* the document binds runs the handler loaded from the document, and an
\* invocation of an action the document does not bind returns 0 and runs no
\* handler.
C3_ReloadReplacesRegistry ==
    \A t \in Threads :
        Invoked(t) =>
            /\ done[t].how = "reload" => done[t].ran = done[t].want
            /\ done[t].how = "unlisted" =>
                   done[t].ran = NoHandler /\ done[t].rv = 0

\* C4: after a script_eventlist_read that rejected its document, an
\* invocation of an action that was bound before the call still runs the
\* handler it was bound to.
C4_FailedReloadKeepsRegistry ==
    \A t \in Threads :
        Invoked(t) /\ done[t].how = "kept" => done[t].ran = done[t].want

\* C10: after a successful script_add on an action that had a binding, an
\* invocation of the action runs the handler that script_add loaded.
C10_ReaddReplaces ==
    \A t \in Threads :
        Invoked(t) /\ done[t].how = "readd" => done[t].ran = done[t].want

\* C11: after a script_add that returned 0 while an interpreter existed, an
\* invocation of the action runs the handler loaded from the source, also
\* when the document given to init_scripts was rejected.
C11_AddBinds ==
    \A t \in Threads :
        Invoked(t) /\ done[t].how \in {"add", "readd"} =>
            done[t].ran = done[t].want

\* what an invocation of each action does in the interpreter state s: the
\* handler it runs, what it returns, whether the process survives it
InvokeView(s) ==
    [e \in Actions |->
        {<<o.ran, o.rv, o.crashed>> :
            o \in script_execute_pkt_locked(s, e, [k |-> "int", v |-> 7])}]

\* thread t returns -1 from the locked part of script_add: the source could
\* not be loaded
AddFailed(t) ==
    /\ pc[t] = "crit" /\ op[t].kind = "add"
    /\ pc'[t] = "idle" /\ done'[t].rv = -1

\* C12: a script_add that fails to load its source returns -1 and leaves
\* every binding as it was: script_ids, the scripts table and the registry
\* are unchanged, and an invocation of any action does what it did before.
C12_FailedAddKeepsBindings ==
    [][\A t \in Threads :
          AddFailed(t) =>
              /\ script_ids' = script_ids
              /\ slots' = slots /\ tfree' = tfree
              /\ registry' = registry /\ scripts_ref' = scripts_ref
              /\ InvokeView(Cur)' = InvokeView(Cur)]_vars

C12_Witness ==
    \E t \in Threads :
        /\ done[t].kind = "add" /\ done[t].rv = -1 /\ done[t].delta = 1
        /\ done[t].want # NoHandler
        /\ script_ids[done[t].ev] # 0
        /\ InvokeView(Cur)[done[t].ev] = {<<done[t].want, 7, FALSE>>}

\* thread t has returned from script_execute or script_execute_pkt, whatever
\* its argument list was
InvokeReturned(t) ==
    done[t].kind \in {"execute", "execute_badarg", "execute_pkt"}

\* C13: an invocation made while no interpreter exists or while the action
\* has no binding (never registered, unregistered, not listed by the last
\* document read, or dropped by cleanup_scripts) returns 0, runs no handler
\* and leaves the Lua stack as it found it.
C13_UnboundInvokeIsNoOp ==
    \A t \in Threads :
        InvokeReturned(t) /\ done[t].want = NoHandler =>
            /\ done[t].ran = NoHandler
            /\ done[t].rv = 0
            /\ done[t].delta = 0

\* C14: a script_execute on a bound action whose argument list holds an
\* unrecognized tag calls no handler, returns 0 and removes from the Lua stack
\* everything it pushed: the arguments, the handler and the scripts table.
C14_BadTagUnwinds ==
    \A t \in Threads :
        done[t].kind = "execute_badarg" /\ done[t].want # NoHandler =>
            /\ done[t].ran = NoHandler
            /\ done[t].rv = 0
            /\ done[t].delta = 0

\* thread t has returned from script_add, script_remove, script_execute or
\* script_execute_pkt
EntryReturned(t) ==
    done[t].kind \in {"add", "remove", "execute", "execute_badarg",
                      "execute_pkt"}

\* C15: every call of script_add, script_remove, script_execute and
\* script_execute_pkt that returns leaves the Lua stack at the depth it had
\* when the call began.
C15_CleanFrame ==
    \A t \in Threads : EntryReturned(t) => done[t].delta = 0

\* thread t returns from the locked part of script_execute or
\* script_execute_pkt after the handler ended in one of the ways outs
HandlerEnded(t, outs) ==
    /\ pc[t] = "crit" /\ op[t].kind \in {"execute", "execute_pkt"}
    /\ pc'[t] = "idle"
    /\ done'[t].ran # NoHandler /\ done'[t].out \in outs

\* nothing the interpreter holds changes, the mutex is released, and an
\* invocation of any action does what it did before
InvokeLeavesNoTrace ==
    /\ ~crashed'
    /\ script_mutex' = 0
    /\ UNCHANGED <<lstate, scripts_ref, script_ids, registry, slots, tfree,
                   lstack, nloads, bound, how>>
    /\ InvokeView(Cur)' = InvokeView(Cur)

RandomCall ==
    /\ Returned
    /\ q_stack[0] = "GET_RANDOM" /\ q_stack[1] = 2 /\ q_stack[2] = 1
    /\ q_stack[5] <= MaxRegister

\* C17: a bounded-random call that passes the checks of arg_count,
\* return_count and the result register, with min equal to max or above it,
\* returns INVALID_ARG, writes no register and does not call the generator.
C17_EmptyRangeRejected ==
    RandomCall /\ q_stack[3] >= q_stack[4] =>
        /\ status = QUEST_FUNC_RET_INVALID_ARG
        /\ NoRegisterWritten
        /\ ~drawn /\ rng_out = 0

C17_Witness ==
    /\ RandomCall
    /\ q_stack[3] = q_stack[4]
    /\ status = QUEST_FUNC_RET_INVALID_ARG
    /\ NoRegisterWritten /\ ~drawn

\* C18: a bounded-random call that passes the checks, with min below max,
\* calls the generator once and writes to the result register the value
\* g mod (max - min + 1) + min of the generator's output g, taken in the
\* integers; the value is in min..max.  With min = 0 and max = BROADCAST the
\* modulus is one more than the largest word, and the value is g.
C18_RandomInRange ==
    RandomCall /\ q_stack[3] < q_stack[4] =>
        LET min == q_stack[3]
            max == q_stack[4]
            value == (rng_out % (max - min + 1)) + min
        IN  /\ status = QUEST_FUNC_RET_NO_ERROR
            /\ drawn
            /\ writes = <<Sync(q_stack[5], value)>>
            /\ value \in min..max
            /\ (min = 0 /\ max = BROADCAST => value = rng_out)

C18_Witness ==
    /\ RandomCall
    /\ q_stack[3] = 0 /\ q_stack[4] = BROADCAST
    /\ rng_out = BROADCAST
    /\ writes = <<Sync(q_stack[5], BROADCAST)>>

\* thread t returns from the locked part of script_remove, called for an
\* action that has no binding while the interpreter holds a scripts table
RemoveOfUnbound(t) ==
    /\ pc[t] = "crit" /\ op[t].kind = "remove"
    /\ pc'[t] = "idle"
    /\ lstate = "open" /\ scripts_ref # 0 /\ registry = Tbl
    /\ bound[op[t].ev] = NoHandler

\* C19: script_remove on an action that has no binding (never registered,
\* not listed by the document, or unregistered by an earlier successful
\* script_remove) returns -1 and changes nothing in the interpreter.
C19_RemoveUnboundFails ==
    [][\A t \in Threads :
          RemoveOfUnbound(t) =>
              /\ done'[t].rv = -1
              /\ ~crashed'
              /\ UNCHANGED <<lstate, scripts_ref, script_ids, registry, slots,
                             tfree, lstack, bound>>]_vars

\* thread t returns from script_eventlist_read, called by init_scripts or by
\* the caller, after the loop over the entries of a valid document
ReadReturns(t) == pc[t] = "load" /\ pc'[t] = "idle"

\* action a is bound in the interpreter to handler h: the registry holds the
\* scripts table, and the table holds h at the index script_ids keeps for a
BoundTo(a, h) ==
    /\ registry = Tbl
    /\ script_ids[a] \in 1..Len(slots)
    /\ slots[script_ids[a]] = h

\* every action that has a binding is bound in the interpreter to its handler
BoundAsDeclared ==
    \A a \in Actions : bound[a] # NoHandler => BoundTo(a, bound[a])

\* C20: when script_eventlist_read has read a valid document, it returns 0
\* and every action that a well-formed, loadable entry of the document names
\* is bound to the handler of the last such entry, whatever other entries
\* (text, another tag, a missing attribute, an unknown event, a file that
\* does not load) the document holds before or after it.
C20_BadEntriesSkipped ==
    [][\A t \in Threads :
          ReadReturns(t) =>
              /\ ~crashed' /\ done'[t].rv = 0
              /\ BoundAsDeclared']_vars

\* C21: while no interpreter exists (before init_scripts, after an
\* init_scripts that could not create one, after cleanup_scripts), every step
\* of script_execute, script_execute_pkt, script_add, script_remove and
\* script_eventlist_read leaves the interpreter's variables and every binding
\* as they are and does not fault, and an invocation returns 0 having run
\* nothing.
C21_NoInterpreterNoOp ==
    [][lstate = "null" /\ lstate' = "null" =>
          /\ ~crashed'
          /\ UNCHANGED <<scripts_ref, script_ids, registry, slots, tfree,
                         lstack, bound>>
          /\ \A a \in Actions : script_ids[a] = 0 /\ bound[a] = NoHandler
          /\ \A t \in Threads :
                done'[t] # done[t] /\ InvokeReturned(t)' =>
                    done'[t].rv = 0 /\ done'[t].ran = NoHandler]_vars

\* C22: no thread is past the scripts_ref check of script_add, script_remove,
\* script_execute or script_execute_pkt (waiting for script_mutex or holding
\* it) at a moment when the interpreter has been closed by cleanup_scripts;
\* a thread in that position goes on to call Lua with lstate = NULL.
C22_TeardownAtomic ==
    \A t \in Threads :
        pc[t] \in {"lock", "crit"} => lstate = "open"

\* C23: under fair scheduling, every thread that has passed the scripts_ref
\* check of script_add, script_remove, script_execute or script_execute_pkt,
\* and so takes script_mutex, returns from the call: it becomes idle in a
\* process that has not faulted.
C23_LockedCallsReturn ==
    \A t \in Threads :
        (pc[t] \in {"lock", "crit"}) ~> (pc[t] = "idle" /\ ~crashed)

\* the datum each single-value query reads from a member
DatumOf(f) ==
    CASE f = "GET_SECTION" -> "section"
      [] f = "GET_CLASS" -> "class"
      [] f = "GET_GENDER" -> "gender"
      [] f = "GET_RACE" -> "race"
      [] f = "GET_JOB" -> "job"
      [] f = "GET_FLOOR" -> "floor"

\* the frame is a call of a single-value query that has returned
SingleValueCall == Returned /\ q_stack[0] \in TargetFuncs \ {"GET_POSITION"}

\* C24: a single-value query in the broadcast form with return_count 4 and
\* four different registers below 256 returns NO_ERROR; the register given
\* for slot i then holds the datum of the member in slot i, or 0xFFFFFFFF if
\* the slot is empty, and no other register was written.
C24_BroadcastValues ==
    (/\ SingleValueCall
     /\ q_stack[1] = 1 /\ q_stack[3] = BROADCAST /\ q_stack[2] = 4
     /\ Cardinality({q_stack[4 + i] : i \in 0..3}) = 4
     /\ \A i \in 0..3 : q_stack[4 + i] <= MaxRegister)
    => /\ status = QUEST_FUNC_RET_NO_ERROR
       /\ \A i \in 0..3 :
             Reg(regs, q_stack[4 + i]) =
                 IF clients[i].present
                 THEN MemberValue(DatumOf(q_stack[0]), clients[i])
                 ELSE BROADCAST
       /\ DOMAIN regs = {q_stack[4 + i] : i \in 0..3}

C24_Witness ==
    /\ Returned /\ status = QUEST_FUNC_RET_NO_ERROR
    /\ q_stack[0] = "GET_CLASS" /\ q_stack[3] = BROADCAST
    /\ <<q_stack[4], q_stack[5], q_stack[6], q_stack[7]>> = <<5, 6, 7, 8>>
    /\ clients[0].present /\ ~clients[1].present
    /\ clients[2].present /\ ~clients[3].present
    /\ Reg(regs, 5) = 3 /\ Reg(regs, 6) = BROADCAST
    /\ Reg(regs, 7) = 7 /\ Reg(regs, 8) = BROADCAST
    /\ Reg(regs, 9) = RegFill

\* the register and the value of the one write of a successful call that is
\* not in the broadcast form; for the time it is one of the clock's values
SingleWrite(q) ==
    CASE q[0] = "TIME" -> {(q[3] :> U32(now)) : now \in Times}
      [] q[0] = "CLIENT_COUNT" -> {q[3] :> Cardinality({i \in 0..3 : clients[i].present})}
      [] q[0] = "GET_RANDOM" ->
           {q[5] :> ((rng_out % (q[4] - q[3] + 1)) + q[3])}
      [] OTHER ->
           {q[4] :> (IF clients[q[3]].present
                     THEN MemberValue(DatumOf(q[0]), clients[q[3]])
                     ELSE BROADCAST)}

\* C25: a successful call of the time, client-count or random function, or
\* of a single-value query with a target below 4, leaves exactly one
\* register written: the one the frame names, holding the queried value
\* (0xFFFFFFFF for an empty target slot); and no call changes the frame.
C25_SingleWrite ==
    /\ [](Returned /\ status = QUEST_FUNC_RET_NO_ERROR
          /\ (q_stack[0] \in {"TIME", "CLIENT_COUNT", "GET_RANDOM"}
              \/ (SingleValueCall /\ q_stack[3] < 4))
          => /\ Len(writes) = 1
             /\ regs \in SingleWrite(q_stack))
    /\ [][qpc = "ready" => q_stack' = q_stack]_vars

C25_Witness ==
    /\ SingleValueCall /\ status = QUEST_FUNC_RET_NO_ERROR
    /\ q_stack[0] = "GET_FLOOR" /\ q_stack[3] = 2 /\ q_stack[4] = 255
    /\ ~clients[2].present /\ clients[0].present
    /\ regs = (255 :> BROADCAST)

\* C26: a successful gender, race or job query writes, for a present member
\* of class c below 12, the entry for c of the table genders, races or jobs
\* (for class 3: gender 0, race 0, job 1), and for a present member of class
\* 12 or more 0xFFFFFFFF, the value it writes for an empty slot.
C26_AttributeTables ==
    LET table == CASE q_stack[0] = "GET_GENDER" -> genders
                   [] q_stack[0] = "GET_RACE" -> races
                   [] OTHER -> jobs
        Expected(i) == IF ~clients[i].present THEN BROADCAST
                       ELSE IF clients[i].ch_class < 12
                       THEN table[clients[i].ch_class + 1]
                       ELSE BROADCAST
    IN  /\ GENDER(3) = 0 /\ RACE(3) = 0 /\ JOB(3) = 1
        /\ \A c \in 12..255 : GENDER(c) = -1 /\ RACE(c) = -1 /\ JOB(c) = -1
        /\ (/\ Returned /\ status = QUEST_FUNC_RET_NO_ERROR
            /\ q_stack[0] \in {"GET_GENDER", "GET_RACE", "GET_JOB"})
           => IF q_stack[3] = BROADCAST
              THEN /\ Len(writes) = 4
                   /\ \A i \in 0..3 : writes[i + 1].value = Expected(i)
              ELSE /\ Len(writes) = 1
                   /\ writes[1].value = Expected(q_stack[3])

C26_Witness ==
    /\ Returned /\ status = QUEST_FUNC_RET_NO_ERROR
    /\ q_stack[0] = "GET_JOB" /\ q_stack[3] = BROADCAST
    /\ clients[0].present /\ clients[0].ch_class = 3
    /\ clients[3].present /\ clients[3].ch_class = 12
    /\ ~clients[1].present
    /\ writes[1].value = 1
    /\ writes[2].value = BROADCAST
    /\ writes[4].value = BROADCAST

\* C27: after a successful position query, each queried member's registers
\* base, base + 1 and base + 2 are registers of the file and hold the
\* member's x, y and z cut to integers, or 0xFFFFFFFF for an empty slot.
\* Stated for the frames whose blocks of three do not share a register: the
\* targeted form, and the broadcast form with bases at least 3 apart.
C27_PositionRegisters ==
    LET q == q_stack
        all == q[3] = BROADCAST
        queried == IF all THEN 0..3 ELSE {q[3]}
        base(i) == IF all THEN q[4 + i] ELSE q[4]
        block(i) == {base(i), base(i) + 1, base(i) + 2}
        coord(i, k) == CASE k = 0 -> clients[i].x [] k = 1 -> clients[i].y
                         [] OTHER -> clients[i].z
        held(i, k) == IF clients[i].present
                      THEN {FloatToU32(coord(i, k), m) : m \in FloatModes}
                      ELSE {BROADCAST}
    IN  (/\ Returned /\ q[0] = "GET_POSITION"
         /\ status = QUEST_FUNC_RET_NO_ERROR
         /\ \A i, j \in queried : i # j => block(i) \cap block(j) = {})
        => \A i \in queried : \A k \in 0..2 :
              /\ base(i) + k \in Registers
              /\ Reg(regs, base(i) + k) \in held(i, k)

\* C28: a dispatch that returns a status other than NO_ERROR, for any frame
\* and any function id, has issued no register write, has left the register
\* file as it was and has not called the generator.
C28_AllOrNothing ==
    Returned /\ status # QUEST_FUNC_RET_NO_ERROR =>
        /\ NoRegisterWritten
        /\ ~drawn /\ rng_out = 0

C28_Witness ==
    /\ Returned /\ status = QUEST_FUNC_RET_INVALID_REGISTER
    /\ q_stack[0] = "GET_POSITION" /\ q_stack[3] = BROADCAST
    /\ q_stack[4] <= MaxRegister /\ q_stack[7] > MaxRegister
    /\ \E i \in 0..3 : clients[i].present
    /\ NoRegisterWritten

\* C29: an invocation of an action never runs a handler that was loaded for
\* another action.
C29_HandlerIsolation ==
    \A t \in Threads :
        Invoked(t) /\ done[t].ran.k = "fn" => done[t].ran.ev = done[t].ev

====
